---- MODULE Spec2Model ----
(***************************************************************************)
(* The CityGML extraction pipeline of web/src/lib/citygmlService.ts:       *)
(* processCityGML and the extractors it calls, as a state machine over     *)
(* the tree fast-xml-parser delivers.                                      *)
(*                                                                         *)
(* Numbers.  JavaScript numbers are kept in fixed point with one decimal:  *)
(* the model's integer n stands for the number n/10, so 12.5 is 125, the   *)
(* default height 10 is 100 and the latitude -90 is -900.  NaN and         *)
(* undefined are values of their own.                                      *)
(*                                                                         *)
(* Values.  Every JavaScript value is a record [k, v]: k is the kind, v    *)
(* the payload.  A string is kept as the sequence of its whitespace-       *)
(* separated tokens, each a numeric token Num(n) or a word Word(s).        *)
(***************************************************************************)
EXTENDS Integers, Sequences, FiniteSets, TLC

Undef == [k |-> "undefined", v |-> 0]
NaN == [k |-> "NaN", v |-> 0]
Num(n) == [k |-> "number", v |-> n]
Word(s) == [k |-> "word", v |-> s]
Str(toks) == [k |-> "string", v |-> toks]
Obj(f) == [k |-> "object", v |-> f]
Arr(s) == [k |-> "array", v |-> s]

\* A text leaf holding one word, e.g. an id or a reference-system name.
Text(s) == Str(<<Word(s)>>)

(***************************************************************************)
(* JavaScript semantics the code relies on.                                *)
(***************************************************************************)

\* o[name]: a property of an object; undefined on every other value the
\* tree holds (an array, a string or a number has none of these names).
Get(o, name) ==
    IF o.k = "object" /\ name \in DOMAIN o.v THEN o.v[name] ELSE Undef

\* Truthiness, as `||`, `&&`, `!` and `if` read it.
Truthy(x) ==
    CASE x.k = "undefined" -> FALSE
      [] x.k = "NaN" -> FALSE
      [] x.k = "number" -> x.v # 0
      [] x.k = "string" -> x.v # <<>>
      [] OTHER -> TRUE

\* a || b
Or(a, b) == IF Truthy(a) THEN a ELSE b

\* Array.isArray(x) ? x : [x]
AsList(x) == IF x.k = "array" THEN x.v ELSE <<x>>

\* arr[i] with JavaScript's 0-based i: undefined past the end.
At(s, i) == IF i + 1 \in 1..Len(s) THEN s[i + 1] ELSE Undef

\* Number(token), and the conversion Math.max / Math.min / - apply to an
\* operand: undefined and non-numeric text become NaN.
ToNumber(x) == IF x.k = "number" THEN x ELSE NaN

\* text.trim().split(/\s+/).map(Number)
SplitNumbers(str) == [i \in 1..Len(str.v) |-> ToNumber(str.v[i])]

\* String(x) as parseFloat and parseInt see it, reduced to its first token:
\* a number prints as itself, a string is itself, an object prints as
\* "[object Object]", an array as its elements joined by commas.
RECURSIVE FirstToken(_)
FirstToken(x) ==
    CASE x.k = "number" -> x
      [] x.k = "string" -> IF x.v = <<>> THEN Word("") ELSE x.v[1]
      [] x.k = "array" -> IF x.v = <<>> THEN Word("") ELSE FirstToken(x.v[1])
      [] x.k = "object" -> Word("[object Object]")
      [] OTHER -> Word(x.k)

parseFloat(x) == ToNumber(FirstToken(x))

\* Truncation toward zero of a fixed-point number.
Trunc(n) == IF n >= 0 THEN (n \div 10) * 10 ELSE -(((-n) \div 10) * 10)

\* parseInt(x, 10)
parseInt(x) ==
    LET t == FirstToken(x) IN IF t.k = "number" THEN Num(Trunc(t.v)) ELSE NaN

\* Math.max(a, b) and Math.min(a, b): NaN as soon as one operand is.
MathMax(a, b) ==
    LET x == ToNumber(a)
        y == ToNumber(b)
    IN  IF x.k = "NaN" \/ y.k = "NaN" THEN NaN
        ELSE IF x.v >= y.v THEN x ELSE y

MathMin(a, b) ==
    LET x == ToNumber(a)
        y == ToNumber(b)
    IN  IF x.k = "NaN" \/ y.k = "NaN" THEN NaN
        ELSE IF x.v <= y.v THEN x ELSE y

\* Math.abs(a - b)
AbsDiff(a, b) ==
    LET x == ToNumber(a)
        y == ToNumber(b)
    IN  IF x.k = "NaN" \/ y.k = "NaN" THEN NaN
        ELSE Num(IF x.v >= y.v THEN x.v - y.v ELSE y.v - x.v)

\* Math.ceil(h / 3)
CeilThird(h) ==
    IF h.k # "number" THEN NaN
    ELSE Num(((h.v + 29) \div 30) * 10)

\* a > 0
Positive(a) == a.k = "number" /\ a.v > 0

\* a !== b on numbers and undefined: NaN differs from everything.
StrictNeq(a, b) == a.k = "NaN" \/ b.k = "NaN" \/ a # b

(***************************************************************************)
(* Coordinate reprojection (transformCoordinates).                         *)
(***************************************************************************)

\* The reference systems proj4 can resolve: the two registered at module
\* level and the geographic system it ships with.
RegisteredCRS == {"EPSG:31256", "EPSG:3857", "EPSG:4326"}

\* proj4(fromCRS, 'EPSG:4326', [x, y]) throws for a system it cannot resolve
\* and for a coordinate that is not a finite number.
proj4Throws(fromCRS, x, y) ==
    fromCRS \notin RegisteredCRS \/ x.k # "number" \/ y.k # "number"

\* The projection itself is the library's arithmetic; the model keeps that it
\* maps a metric pair to a different pair of degrees (1000 m to the degree).
proj4(fromCRS, x, y) == <<Num(x.v \div 1000), Num(y.v \div 1000)>>

\* transformCoordinates without the fallback of its catch block: a position
\* proj4 rejects comes back without its horizontal pair.
transformCoordinatesNoFallback(coords, fromCRS) ==
    IF fromCRS = "EPSG:4326" THEN coords
    ELSE LET x == At(coords, 0)
             y == At(coords, 1)
             z == At(coords, 2)
         IN  IF proj4Throws(fromCRS, x, y) THEN <<NaN, NaN, Or(z, Num(0))>>
             ELSE LET ll == proj4(fromCRS, x, y)
                  IN  <<ll[1], ll[2], Or(z, Num(0))>>

transformCoordinates(coords, fromCRS) ==
    IF fromCRS = "EPSG:4326" THEN coords
    ELSE LET x == At(coords, 0)
             y == At(coords, 1)
             z == At(coords, 2)
         IN  IF proj4Throws(fromCRS, x, y) THEN coords
             ELSE LET ll == proj4(fromCRS, x, y)
                  IN  <<ll[1], ll[2], Or(z, Num(0))>>

(***************************************************************************)
(* Geometry extraction.  The code mutates the bounds object it is handed;  *)
(* the operators return the new bounds beside their result.                *)
(***************************************************************************)

\* The four assignments that follow each transformed vertex.
UpdateBounds(bounds, transformed) ==
    [north |-> MathMax(bounds.north, At(transformed, 1)),
     south |-> MathMin(bounds.south, At(transformed, 1)),
     east  |-> MathMax(bounds.east, At(transformed, 0)),
     west  |-> MathMin(bounds.west, At(transformed, 0))]

\* for (let i = 0; i < coords.length; i += 3) { ... }
RECURSIVE PosListLoop(_, _, _, _)
PosListLoop(coords, i, sourceCRS, acc) ==
    IF i >= Len(coords) THEN acc
    ELSE LET transformed ==
                 transformCoordinates(
                     <<At(coords, i), At(coords, i + 1), At(coords, i + 2)>>,
                     sourceCRS)
         IN  PosListLoop(coords, i + 3, sourceCRS,
                 [coordinates |-> Append(acc.coordinates, transformed),
                  bounds |-> UpdateBounds(acc.bounds, transformed)])

\* The pos loop without its bounds update.
RECURSIVE PosArrayLoopNoBounds(_, _, _, _)
PosArrayLoopNoBounds(posArray, j, sourceCRS, acc) ==
    IF j > Len(posArray) THEN acc
    ELSE LET pos == posArray[j]
         IN  IF pos.k = "string"
             THEN PosArrayLoopNoBounds(posArray, j + 1, sourceCRS,
                      [coordinates |->
                           Append(acc.coordinates,
                                  transformCoordinates(SplitNumbers(pos), sourceCRS)),
                       bounds |-> acc.bounds])
             ELSE PosArrayLoopNoBounds(posArray, j + 1, sourceCRS, acc)

\* posArray.forEach(pos => { if (typeof pos === 'string') { ... } })
RECURSIVE PosArrayLoop(_, _, _, _)
PosArrayLoop(posArray, j, sourceCRS, acc) ==
    IF j > Len(posArray) THEN acc
    ELSE LET pos == posArray[j]
         IN  IF pos.k = "string"
             THEN LET transformed ==
                          transformCoordinates(SplitNumbers(pos), sourceCRS)
                  IN  PosArrayLoop(posArray, j + 1, sourceCRS,
                          [coordinates |-> Append(acc.coordinates, transformed),
                           bounds |-> UpdateBounds(acc.bounds, transformed)])
             ELSE PosArrayLoop(posArray, j + 1, sourceCRS, acc)

\* "Ensure the polygon is closed": the first vertex is appended when the
\* last differs from it in its first or second component.
ClosePolygon(coordinates) ==
    IF Len(coordinates) > 0
       /\ (\/ StrictNeq(At(coordinates[1], 0), At(coordinates[Len(coordinates)], 0))
           \/ StrictNeq(At(coordinates[1], 1), At(coordinates[Len(coordinates)], 1)))
    THEN Append(coordinates, coordinates[1])
    ELSE coordinates

\* The end of extractPolygon: the ring read, closed, beside the bounds.
Closed(read) ==
    [polygon |-> ClosePolygon(read.coordinates), bounds |-> read.bounds]

\* extractPolygon: [polygon, bounds].  The code returns null or a non-empty
\* array and its callers only test the result for truth; null is <<>> here.
extractPolygon(surface, sourceCRS, bounds) ==
    LET polygon == Or(Get(surface, "gml:Polygon"), Get(surface, "Polygon"))
        exterior == Or(Get(polygon, "gml:exterior"), Get(polygon, "exterior"))
        ring == Or(Get(exterior, "gml:LinearRing"), Get(exterior, "LinearRing"))
        posList == Or(Get(ring, "gml:posList"), Get(ring, "posList"))
        posArray == Or(Or(Get(ring, "gml:pos"), Get(ring, "pos")), Arr(<<>>))
        start == [coordinates |-> <<>>, bounds |-> bounds]
        read == IF Truthy(posList)
                THEN PosListLoop(
                         IF posList.k = "string" THEN SplitNumbers(posList) ELSE <<>>,
                         0, sourceCRS, start)
                ELSE PosArrayLoop(AsList(posArray), 1, sourceCRS, start)
    IN  IF ~Truthy(polygon) \/ ~Truthy(exterior) \/ ~Truthy(ring)
        THEN [polygon |-> <<>>, bounds |-> bounds]
        ELSE Closed(read)

\* The push without the test of the polygon: what extractPolygon returned
\* is pushed even when it is null.
PushPolygonAlways(surfaces, got) ==
    [surfaces |-> Append(surfaces, got.polygon), bounds |-> got.bounds]

\* A forEach over surfaces: each polygon found is pushed.  `guarded` is the
\* `if (!surface) return` the ground-surface loop has and the shell loop
\* lacks.
\* if (polygon) surfaces.push(polygon)
PushPolygon(surfaces, got) ==
    [surfaces |-> IF got.polygon # <<>> THEN Append(surfaces, got.polygon)
                  ELSE surfaces,
     bounds |-> got.bounds]

RECURSIVE SurfaceLoop(_, _, _, _, _)
SurfaceLoop(list, j, guarded, sourceCRS, acc) ==
    IF j > Len(list) THEN acc
    ELSE IF guarded /\ ~Truthy(list[j])
         THEN SurfaceLoop(list, j + 1, guarded, sourceCRS, acc)
         ELSE SurfaceLoop(list, j + 1, guarded, sourceCRS,
                  PushPolygon(acc.surfaces,
                              extractPolygon(list[j], sourceCRS, acc.bounds)))

\* "If no ground surfaces found, try to extract from solid": the second half
\* of extractSurfacesFromElement, given what the ground surfaces yielded.
SolidFallback(element, sourceCRS, fromGround) ==
    LET solid == Or(Or(Or(Get(element, "bldg:lod2Solid"), Get(element, "lod2Solid")),
                       Get(element, "bldg:lod1Solid")), Get(element, "lod1Solid"))
        exterior == Or(Get(solid, "gml:exterior"), Get(solid, "exterior"))
        shell == Or(Get(exterior, "gml:Shell"), Get(exterior, "Shell"))
        surfaceMembers ==
            Or(Or(Get(shell, "gml:surfaceMember"), Get(shell, "surfaceMember")),
               Arr(<<>>))
    IN  IF fromGround.surfaces = <<>>
           /\ Truthy(solid) /\ Truthy(exterior) /\ Truthy(shell)
        THEN SurfaceLoop(AsList(surfaceMembers), 1, FALSE, sourceCRS, fromGround)
        ELSE fromGround

extractSurfacesFromElement(element, sourceCRS, bounds) ==
    LET groundSurfaces ==
            Or(Or(Get(element, "bldg:GroundSurface"), Get(element, "GroundSurface")),
               Arr(<<>>))
    IN  SolidFallback(element, sourceCRS,
            SurfaceLoop(AsList(groundSurfaces), 1, TRUE, sourceCRS,
                        [surfaces |-> <<>>, bounds |-> bounds]))

\* buildingParts.forEach(part => { if (!part) return; ... })
\* surfaces.push(...partSurfaces)
PushAll(surfaces, got) ==
    [surfaces |-> surfaces \o got.surfaces, bounds |-> got.bounds]

RECURSIVE PartLoop(_, _, _, _)
PartLoop(parts, j, sourceCRS, acc) ==
    IF j > Len(parts) THEN acc
    ELSE IF ~Truthy(parts[j]) THEN PartLoop(parts, j + 1, sourceCRS, acc)
         ELSE PartLoop(parts, j + 1, sourceCRS,
                  PushAll(acc.surfaces,
                          extractSurfacesFromElement(parts[j], sourceCRS, acc.bounds)))

\* extractGroundSurfaces with the parts read before the element itself.
extractGroundSurfacesPartsFirst(building, sourceCRS, bounds) ==
    LET buildingParts ==
            Or(Or(Get(building, "bldg:BuildingPart"), Get(building, "BuildingPart")),
               Arr(<<>>))
    IN  PushAll(<<>>,
                extractSurfacesFromElement(
                    building, sourceCRS,
                    PartLoop(AsList(buildingParts), 1, sourceCRS,
                             [surfaces |-> <<>>, bounds |-> bounds]).bounds))

extractGroundSurfaces(building, sourceCRS, bounds) ==
    LET buildingParts ==
            Or(Or(Get(building, "bldg:BuildingPart"), Get(building, "BuildingPart")),
               Arr(<<>>))
    IN  PartLoop(AsList(buildingParts), 1, sourceCRS,
                 PushAll(<<>>, extractSurfacesFromElement(building, sourceCRS, bounds)))

(***************************************************************************)
(* Attribute extraction.                                                   *)
(***************************************************************************)

\* The literal '0' the numeric fields fall back to, and [0, 0, 0].
Str0 == Str(<<Num(0)>>)
Zero3 == <<Num(0), Num(0), Num(0)>>

\* The default height, 10, and the year a building without one gets, 2000.
DefaultHeight == 100
DefaultYear == 20000

\* typeof corner === 'string' ? corner.split(' ').map(Number) : [0, 0, 0]
CornerNumbers(corner) == IF corner.k = "string" THEN SplitNumbers(corner) ELSE Zero3

\* The height the building's envelope spans, 0 without both corners.
boundingBoxHeight(building) ==
    LET boundedBy == Or(Get(building, "gml:boundedBy"), Get(building, "boundedBy"))
        envelope == Or(Get(boundedBy, "gml:Envelope"), Get(boundedBy, "Envelope"))
        lowerCorner == Or(Get(envelope, "gml:lowerCorner"), Get(envelope, "lowerCorner"))
        upperCorner == Or(Get(envelope, "gml:upperCorner"), Get(envelope, "upperCorner"))
    IN  IF Truthy(boundedBy) /\ Truthy(envelope)
           /\ Truthy(lowerCorner) /\ Truthy(upperCorner)
        THEN AbsDiff(At(CornerNumbers(upperCorner), 2), At(CornerNumbers(lowerCorner), 2))
        ELSE Num(0)

extractBuildingHeight(building) ==
    LET measuredHeight ==
            parseFloat(Or(Or(Get(building, "bldg:measuredHeight"),
                             Get(building, "measuredHeight")), Str0))
        heightAboveGround ==
            parseFloat(Or(Or(Get(building, "bldg:heightAboveGround"),
                             Get(building, "heightAboveGround")), Str0))
    IN  MathMax(MathMax(measuredHeight, heightAboveGround),
                MathMax(boundingBoxHeight(building), Num(DefaultHeight)))

extractFloors(building) ==
    LET storeys ==
            parseInt(Or(Or(Get(building, "bldg:storeysAboveGround"),
                           Get(building, "storeysAboveGround")), Str0))
    IN  IF Positive(storeys) THEN storeys
        ELSE CeilThird(extractBuildingHeight(building))

extractYearBuilt(building) ==
    LET yearBuilt ==
            parseInt(Or(Or(Get(building, "bldg:yearOfConstruction"),
                           Get(building, "yearOfConstruction")), Str0))
    IN  IF Positive(yearBuilt) THEN yearBuilt ELSE Num(DefaultYear)

extractBuildingType(building) ==
    Or(Or(Get(building, "bldg:function"), Get(building, "function")), Text("UNKNOWN"))

extractGroundLevel(building) ==
    LET boundedBy == Or(Get(building, "gml:boundedBy"), Get(building, "boundedBy"))
        envelope == Or(Get(boundedBy, "gml:Envelope"), Get(boundedBy, "Envelope"))
        lowerCorner == Or(Get(envelope, "gml:lowerCorner"), Get(envelope, "lowerCorner"))
    IN  IF Truthy(boundedBy) /\ Truthy(envelope) /\ Truthy(lowerCorner)
        THEN Or(At(CornerNumbers(lowerCorner), 2), Num(0))
        ELSE Num(0)

\* The record processCityGML pushes for a building with its rings.
BuildingData(building, groundSurfaces) ==
    [id |-> Or(Get(building, "@_gml:id"), Get(building, "@_id")),
     properties |->
         [height |-> extractBuildingHeight(building),
          floors |-> extractFloors(building),
          yearBuilt |-> extractYearBuilt(building),
          buildingType |-> extractBuildingType(building),
          groundLevel |-> extractGroundLevel(building)],
     geometry |-> [type |-> "MultiPolygon", coordinates |-> groundSurfaces]]

(***************************************************************************)
(* The reference system of the document (extractCRS).                      *)
(***************************************************************************)

\* name.replace('urn:ogc:def:crs:', '').replace('::', ':') on the names the
\* documents of this model carry.
StripUrn(name) ==
    CASE name = "urn:ogc:def:crs:EPSG::31256" -> "EPSG:31256"
      [] name = "urn:ogc:def:crs:EPSG::4326" -> "EPSG:4326"
      [] OTHER -> name

\* An srsName that is not a string (the parser turns "4326" into a number)
\* has no replace method: the TypeError is caught and the default returned.
extractCRS(cityModel) ==
    LET defaultCRS == "EPSG:4326"
        boundedBy == Or(Get(cityModel, "gml:boundedBy"), Get(cityModel, "boundedBy"))
        envelope == Or(Get(boundedBy, "gml:Envelope"), Get(boundedBy, "Envelope"))
        envSrs == Get(envelope, "@_srsName")
        rootSrs == Get(cityModel, "@_srsName")
    IN  IF Truthy(boundedBy) /\ Truthy(envSrs)
        THEN IF envSrs.k = "string" THEN StripUrn(envSrs.v[1].v) ELSE defaultCRS
        ELSE IF Truthy(rootSrs)
             THEN IF rootSrs.k = "string" THEN StripUrn(rootSrs.v[1].v) ELSE defaultCRS
             ELSE defaultCRS

(***************************************************************************)
(* The parser, as processCityGML configures it.                            *)
(***************************************************************************)

\* The element names the isArray option always delivers as arrays.
arrayElements ==
    {"cityObjectMember", "surfaceMember", "triangulatedSurface", "exterior",
     "interior", "LinearRing", "posList", "pos"}

\* The tags the pipeline recognises, by the namespace prefix CityGML
\* documents spell them with.
CoreTags == {"CityModel", "cityObjectMember"}

BldgTags ==
    {"Building", "BuildingPart", "GroundSurface", "lod1Solid", "lod2Solid",
     "measuredHeight", "heightAboveGround", "storeysAboveGround",
     "yearOfConstruction", "function"}

GmlTags ==
    {"exterior", "Shell", "surfaceMember", "Polygon", "LinearRing", "posList",
     "pos", "boundedBy", "Envelope", "lowerCorner", "upperCorner"}

\* A recognised name as a document with prefixes spells it.
PrefixedName(name) ==
    CASE name \in CoreTags -> "core:" \o name
      [] name \in BldgTags -> "bldg:" \o name
      [] name \in GmlTags -> "gml:" \o name
      [] name = "@_id" -> "@_gml:id"
      [] OTHER -> name

\* The parser without removeNSPrefix: names stay as they are spelled.
LocalNameKeepsPrefix(name) == name

\* removeNSPrefix: the local part of a tag or attribute name, on the
\* prefixed names the documents of this model use.
LocalName(name) ==
    CASE name = "core:CityModel" -> "CityModel"
      [] name = "bldg:Building" -> "Building"
      [] name = "bldg:measuredHeight" -> "measuredHeight"
      [] name = "bldg:GroundSurface" -> "GroundSurface"
      [] name = "gml:posList" -> "posList"
      [] name = "@_gml:id" -> "@_id"
      [] \E local \in CoreTags \cup BldgTags \cup GmlTags : name = PrefixedName(local) ->
           CHOOSE local \in CoreTags \cup BldgTags \cup GmlTags :
               name = PrefixedName(local)
      [] OTHER -> name

\* parseTagValue / parseAttributeValue: a text that is one numeric token is
\* delivered as a number, every other text as a string.
ParseValue(leaf) ==
    IF leaf.k = "string" /\ Len(leaf.v) = 1 /\ leaf.v[1].k = "number"
    THEN leaf.v[1] ELSE leaf

\* The tree the parser builds from an element tree: names lose their prefix,
\* leaves are typed, and an element whose name isArray accepts is wrapped
\* into an array unless it already repeats.  `forced` is that set of names.
RECURSIVE ParseNode(_, _)
ParseNode(x, forced) ==
    CASE x.k = "object" ->
           LET names == {LocalName(n) : n \in DOMAIN x.v}
               child(n) == ParseNode(x.v[CHOOSE m \in DOMAIN x.v : LocalName(m) = n],
                                     forced)
           IN  Obj([n \in names |->
                      IF n \in forced /\ child(n).k # "array"
                      THEN Arr(<<child(n)>>) ELSE child(n)])
      [] x.k = "array" -> Arr([i \in 1..Len(x.v) |-> ParseNode(x.v[i], forced)])
      [] OTHER -> ParseValue(x)

\* parser.parse(gmlContent)
parse(root) == ParseNode(root, arrayElements)

(***************************************************************************)
(* The documents the pipeline is run on.  A document is described by its   *)
(* fetch outcome, whether it is well-formed XML, its root element, the     *)
(* reference system it declares and the names of its cityObjectMembers;    *)
(* ElementTree gives its element tree, in which an element that occurs     *)
(* once is a single node and one that repeats is an array.                 *)
(***************************************************************************)

\* The most cityObjectMembers a document of the model has.
MaxMembers == 2

Pt(x, y, z) == <<Num(x), Num(y), Num(z)>>

\* A position written with two numbers, as in <pos>x y</pos>.
Pt2(x, y) == <<Num(x), Num(y)>>

RECURSIVE Flat(_)
Flat(points) == IF points = <<>> THEN <<>> ELSE Head(points) \o Flat(Tail(points))

\* <LinearRing><posList>x y z x y z ...</posList></LinearRing>
PosListRing(tokens) == Obj([posList |-> Str(tokens)])

\* <LinearRing><pos>x y z</pos><pos>x y z</pos>...</LinearRing>
PosRing(points) == Obj([pos |-> Arr([i \in 1..Len(points) |-> Str(points[i])])])

\* <Polygon><exterior>ring</exterior></Polygon> inside a surface element.
SurfaceOf(ring) == Obj([Polygon |-> Obj([exterior |-> Obj([LinearRing |-> ring])])])

\* <boundedBy><Envelope><lowerCorner/><upperCorner/></Envelope></boundedBy>
EnvelopeOf(lower, upper) ==
    Obj([Envelope |-> Obj([lowerCorner |-> Str(lower), upperCorner |-> Str(upper)])])

\* Rings, in metres: a closed square of 5 points; a triangle whose last
\* point repeats the first at another elevation; a ring of two points; an
\* open triangle of 2-D positions; a ring that projects onto latitude -90;
\* a second closed square.
SquareM ==
    <<Pt(163000, 482000, 0), Pt(164000, 482000, 0), Pt(164000, 483000, 0),
      Pt(163000, 483000, 0), Pt(163000, 482000, 0)>>
TriangleZ ==
    <<Pt(163000, 482000, 0), Pt(164000, 482000, 0), Pt(164000, 483000, 0),
      Pt(163000, 482000, 50)>>
Segment ==
    <<Pt(163000, 482000, 0), Pt(164000, 482000, 0)>>
OpenTriangle ==
    <<Pt2(165000, 484000), Pt2(166000, 484000), Pt2(166000, 485000)>>
PoleRing ==
    <<Pt(0, -900000, 0), Pt(100000, -900000, 0), Pt(50000, -900000, 0),
      Pt(0, -900000, 0)>>
SmallSquare ==
    <<Pt(161000, 480000, 0), Pt(162000, 480000, 0), Pt(162000, 481000, 0),
      Pt(161000, 481000, 0), Pt(161000, 480000, 0)>>

MemberNames == {"full", "bare", "zdiff", "open", "pole", "ragged", "road", "solid"}

\* Members for the rules of the geometry extractor: a ground surface without
\* a polygon beside a solid; a building with two parts; a part inside a
\* part; a ring written in both encodings; an empty ring beside a ring; an
\* empty ring alone; a ring of pos elements with three numbers each.
ShapeNames == {"unusable", "parts", "nested", "both", "empty", "hollow", "viapos"}

\* <lodNSolid><exterior><Shell><surfaceMember/>...</Shell></exterior></lodNSolid>
ShellOf(surfaces) ==
    Obj([exterior |-> Obj([Shell |-> Obj([surfaceMember |-> surfaces])])])

\* The element a cityObjectMember of that name wraps.
MemberElement(name) ==
    CASE name = "full" ->
           Obj([Building |-> Obj(
               "@_id" :> Text("B1")
               @@ "measuredHeight" :> Str(<<Num(125)>>)
               @@ "storeysAboveGround" :> Str(<<Num(40)>>)
               @@ "GroundSurface" :> SurfaceOf(PosListRing(Flat(SquareM))))])
      [] name = "bare" ->
           Obj([Building |-> Obj(
               "@_id" :> Text("B2")
               @@ "heightAboveGround" :> Str(<<Num(150)>>))])
      [] name = "zdiff" ->
           Obj([Building |-> Obj(
               "@_id" :> Text("B3")
               @@ "function" :> Text("office")
               @@ "usage" :> Text("residential")
               @@ "boundedBy" :> EnvelopeOf(Pt(163000, 482000, 0), Pt(164000, 483000, 92))
               @@ "GroundSurface" :>
                      Arr(<<SurfaceOf(PosListRing(Flat(TriangleZ))),
                            SurfaceOf(PosListRing(Flat(Segment)))>>))])
      [] name = "open" ->
           Obj([Building |-> Obj(
               "measuredHeight" :>
                      Obj("#text" :> Str(<<Num(125)>>) @@ "@_uom" :> Text("m"))
               @@ "GroundSurface" :> SurfaceOf(PosRing(OpenTriangle)))])
      [] name = "pole" ->
           Obj([Building |-> Obj(
               "@_id" :> Text("B5")
               @@ "heightAboveGround" :> Str(<<Num(305)>>)
               @@ "storeysAboveGround" :> Text("unknown")
               @@ "usage" :> Text("residential")
               @@ "GroundSurface" :> SurfaceOf(PosListRing(Flat(PoleRing))))])
      [] name = "ragged" ->
           Obj([Building |-> Obj(
               "@_id" :> Text("B6")
               @@ "measuredHeight" :> Text("n/a")
               @@ "GroundSurface" :>
                      SurfaceOf(PosListRing(
                          <<Num(163000), Num(482000), Num(0), Num(164000)>>)))])
      [] name = "road" ->
           Obj([Road |-> Obj([function |-> Str(<<Num(10)>>)])])
      [] name = "unusable" ->
           Obj([Building |-> Obj(
               "@_id" :> Text("S1")
               @@ "GroundSurface" :> Obj([lod2MultiSurface |-> Text("surface")])
               @@ "lod2Solid" :> ShellOf(SurfaceOf(PosListRing(Flat(SmallSquare)))))])
      [] name = "parts" ->
           Obj([Building |-> Obj(
               "@_id" :> Text("S2")
               @@ "GroundSurface" :> SurfaceOf(PosListRing(Flat(SquareM)))
               @@ "BuildingPart" :>
                      Arr(<<Obj("@_id" :> Text("S2a")
                                @@ "GroundSurface" :>
                                       Arr(<<SurfaceOf(PosListRing(Flat(SmallSquare))),
                                             SurfaceOf(PosListRing(Flat(Segment)))>>)),
                            Obj("@_id" :> Text("S2b")
                                @@ "lod1Solid" :>
                                       ShellOf(SurfaceOf(PosRing(OpenTriangle))))>>))])
      [] name = "nested" ->
           Obj([Building |-> Obj(
               "@_id" :> Text("S3")
               @@ "GroundSurface" :> SurfaceOf(PosListRing(Flat(SquareM)))
               @@ "BuildingPart" :>
                      Obj("@_id" :> Text("S3a")
                          @@ "GroundSurface" :> SurfaceOf(PosListRing(Flat(SmallSquare)))
                          @@ "BuildingPart" :>
                                 Obj("@_id" :> Text("S3b")
                                     @@ "GroundSurface" :>
                                            SurfaceOf(PosListRing(Flat(PoleRing))))))])
      [] name = "both" ->
           Obj([Building |-> Obj(
               "@_id" :> Text("S4")
               @@ "GroundSurface" :>
                      SurfaceOf(Obj([posList |-> Str(Flat(SquareM)),
                                     pos |-> Arr([i \in 1..Len(SmallSquare) |->
                                                     Str(SmallSquare[i])])])))])
      [] name = "empty" ->
           Obj([Building |-> Obj(
               "@_id" :> Text("S5")
               @@ "GroundSurface" :>
                      Arr(<<SurfaceOf(Obj([posList |-> Str(<<>>)])),
                            SurfaceOf(PosListRing(Flat(SmallSquare))),
                            SurfaceOf(Obj([pos |-> Str(<<>>)]))>>))])
      [] name = "hollow" ->
           Obj([Building |-> Obj(
               "@_id" :> Text("S6")
               @@ "measuredHeight" :> Str(<<Num(125)>>)
               @@ "GroundSurface" :> SurfaceOf(Obj([posList |-> Str(<<>>)])))])
      [] name = "viapos" ->
           Obj([Building |-> Obj(
               "@_id" :> Text("S7")
               @@ "GroundSurface" :> SurfaceOf(PosRing(SquareM)))])
      [] name = "solid" ->
           Obj([Building |-> Obj(
               "@_id" :> Text("B8")
               @@ "boundedBy" :> EnvelopeOf(<<Num(161000), Num(480000)>>, <<Num(162000), Num(481000)>>)
               @@ "storeysAboveGround" :> Str(<<Num(0)>>)
               @@ "function" :> Str(<<Num(10000)>>)
               @@ "lod2Solid" :> Obj([exterior |-> Obj([Shell |-> Obj([surfaceMember |->
                      Arr(<<SurfaceOf(PosListRing(Flat(SmallSquare))),
                            SurfaceOf(PosRing(OpenTriangle))>>)])])]))])

\* What the container declares about its reference system.
SrsNames == {"none", "envelope", "root"}

\* Further declarations: on the envelope and on the root at once; on the
\* root beside an envelope that names no system; on the envelope as a bare
\* code, srsName="31256".
CrsNames == SrsNames \cup {"both", "rootonly", "numeric"}

SrsFields(srs) ==
    CASE srs = "envelope" ->
           [boundedBy |-> Obj([Envelope |->
               Obj("@_srsName" :> Text("urn:ogc:def:crs:EPSG::31256"))])]
      [] srs = "root" -> "@_srsName" :> Text("EPSG:25833")
      [] srs = "both" ->
           "@_srsName" :> Text("EPSG:25833")
           @@ "boundedBy" :> Obj([Envelope |->
                  Obj("@_srsName" :> Text("urn:ogc:def:crs:EPSG::31256"))])
      [] srs = "rootonly" ->
           "@_srsName" :> Text("EPSG:3857")
           @@ "boundedBy" :> Obj([Envelope |->
                  Obj([lowerCorner |-> Str(Pt(161000, 480000, 0)),
                       upperCorner |-> Str(Pt(164000, 483000, 125))])])
      [] srs = "numeric" ->
           "@_srsName" :> Text("EPSG:25833")
           @@ "boundedBy" :> Obj([Envelope |->
                  Obj("@_srsName" :> Str(<<Num(312560)>>))])
      [] OTHER -> <<>>

\* The cityObjectMember children: absent, one node, or an array.
MemberFields(members) ==
    IF members = <<>> THEN <<>>
    ELSE [cityObjectMember |->
              IF Len(members) = 1 THEN MemberElement(members[1])
              ELSE Arr([i \in 1..Len(members) |-> MemberElement(members[i])])]

ElementTree(d) ==
    IF d.root = "other"
    THEN Obj([html |-> Obj([body |-> Text("hello")])])
    ELSE Obj(d.root :> Obj(SrsFields(d.srs) @@ MemberFields(d.members)))

RECURSIVE SeqsUpTo(_, _)
SeqsUpTo(S, n) ==
    IF n = 0 THEN {<<>>}
    ELSE LET shorter == SeqsUpTo(S, n - 1)
         IN  shorter \cup {Append(q, x) : q \in shorter, x \in S}

\* Documents that are fetched and parsed, and the ones that fail before.
Documents ==
    [fetch : {"ok"}, xml : {"ok"}, root : {"CityModel"}, srs : SrsNames,
     members : SeqsUpTo(MemberNames, MaxMembers)]
    \cup [fetch : {"ok"}, xml : {"ok"}, root : {"core:CityModel", "other"},
          srs : {"none"}, members : {<<"full">>}]
    \cup [fetch : {"ok"}, xml : {"malformed"}, root : {"CityModel"},
          srs : {"none"}, members : {<<"full">>}]
    \cup [fetch : {"notok", "reject"}, xml : {"ok"}, root : {"CityModel"},
          srs : {"none"}, members : {<<"full">>}]

(***************************************************************************)
(* processCityGML as a state machine.                                      *)
(*                                                                         *)
(* doc is the document behind the url; fault names the one point, if any,  *)
(* at which the runtime raises an exception while a member is processed.   *)
(* The other variables are the locals of processCityGML; result is what    *)
(* the returned promise resolves to.                                       *)
(*                                                                         *)
(* These variables describe the invocation that holds the thread.  parked  *)
(* lists the other invocations of the host: each is suspended at one of    *)
(* the two awaits, where it holds no local but its url, or has returned.   *)
(*                                                                         *)
(* store is the buildings table with the call that is handing records over *)
(* to it: the rows, the locals of that call, and the number of calls made. *)
(***************************************************************************)
VARIABLES doc, fault, pc, tree, sourceCRS, cityObjects, idx, buildings, bounds,
          result, parked, store

vars == <<doc, fault, pc, tree, sourceCRS, cityObjects, idx, buildings, bounds,
          result, parked, store>>

\* No hand-over is under way.
Idle ==
    [op |-> "none", pc |-> "idle", projectId |-> "", fileUrl |-> "",
     result |-> [pending |-> TRUE], buildings |-> <<>>, i |-> 0,
     before |-> <<>>, attempts |-> <<>>, returned |-> <<>>, thrown |-> <<>>]

\* The table before any import.
EmptyStore == [rows |-> <<>>, call |-> Idle, imports |-> 0]

\* The points of the loop body an exception can be raised at: reading the
\* member (before the inner try), and inside the inner try reading the id,
\* extracting the geometry, assembling the attributes.
Stages == {"member", "id", "geometry", "attributes"}
TryStages == {"id", "geometry", "attributes"}

NoFault == [at |-> 0, stage |-> "none"]

Faults(d) ==
    {NoFault} \cup [at : 1..Len(d.members), stage : Stages]

\* const bounds = { north: -90, south: 90, east: -180, west: 180 }
InitialBounds ==
    [north |-> Num(-900), south |-> Num(900), east |-> Num(-1800), west |-> Num(1800)]

Pending == [pending |-> TRUE]

\* The outer catch: { success: false, error: error.message } for an Error,
\* the fixed text for any other thrown value.
Failure(thrown) ==
    [success |-> FALSE,
     error |-> IF thrown.isError THEN thrown.message
               ELSE "Failed to process CityGML file"]

Error(message) == [isError |-> TRUE, message |-> message]

\* The return statement at the end of the try block.
Success(bldgs, bnds, crs) ==
    [success |-> TRUE,
     data |-> [buildings |-> bldgs,
               bounds |-> IF StrictNeq(bnds.north, Num(-900)) THEN bnds ELSE Undef,
               sourceCRS |-> crs]]

\* The inner try block from the geometry on, given what
\* extractGroundSurfaces returned: an exception there, or no ring, skips the
\* building; the bounds keep what the extraction added.
TryBlock(building, bldgs, stage, got) ==
    IF stage = "geometry" \/ Len(got.surfaces) = 0 \/ stage = "attributes"
    THEN [buildings |-> bldgs, bounds |-> got.bounds, thrown |-> FALSE]
    ELSE [buildings |-> Append(bldgs, BuildingData(building, got.surfaces)),
          bounds |-> got.bounds, thrown |-> FALSE]

\* LoopBody without the inner try: an exception raised while the building is
\* processed leaves the loop like one raised at the member.
LoopBodyNoInnerTry(member, sourceCrs, bldgs, bnds, stage) ==
    LET building == Or(Get(member, "Building"), Get(member, "bldg:Building"))
        same == [buildings |-> bldgs, bounds |-> bnds, thrown |-> FALSE]
    IN  IF stage = "member" THEN [same EXCEPT !.thrown = TRUE]
        ELSE IF ~Truthy(building) THEN same
        ELSE IF stage \in TryStages THEN [same EXCEPT !.thrown = TRUE]
        ELSE TryBlock(building, bldgs, stage,
                      extractGroundSurfaces(building, sourceCrs, bnds))

\* LoopBody without the `if (!building) continue`: a member without a
\* building element is read like one, and reading its fields throws.
LoopBodyNoSkip(member, sourceCrs, bldgs, bnds, stage) ==
    LET building == Or(Get(member, "Building"), Get(member, "bldg:Building"))
        same == [buildings |-> bldgs, bounds |-> bnds, thrown |-> FALSE]
    IN  IF stage = "member" \/ ~Truthy(building) THEN [same EXCEPT !.thrown = TRUE]
        ELSE IF stage = "id" THEN same
        ELSE TryBlock(building, bldgs, stage,
                      extractGroundSurfaces(building, sourceCrs, bnds))

\* One iteration of the for loop over the members: the buildings and bounds
\* after it, and whether an exception left the loop (thrown = TRUE: it was
\* raised outside the inner try and reaches the outer catch).
LoopBody(member, sourceCrs, bldgs, bnds, stage) ==
    LET building == Or(Get(member, "Building"), Get(member, "bldg:Building"))
        same == [buildings |-> bldgs, bounds |-> bnds, thrown |-> FALSE]
    IN  IF stage = "member" THEN [same EXCEPT !.thrown = TRUE]
        ELSE IF ~Truthy(building) THEN same
        ELSE IF stage = "id" THEN same
        ELSE TryBlock(building, bldgs, stage,
                      extractGroundSurfaces(building, sourceCrs, bnds))

Init ==
    /\ doc \in Documents
    /\ fault \in Faults(doc)
    /\ pc = "start"
    /\ tree = Undef
    /\ sourceCRS = ""
    /\ cityObjects = <<>>
    /\ idx = 0
    /\ buildings = <<>>
    /\ bounds = InitialBounds
    /\ result = Pending
    /\ parked = <<>>
    /\ store = EmptyStore

\* Fetch without the test of response.ok: only a rejected fetch fails.
FetchIgnoresOk ==
    /\ pc = "start"
    /\ IF doc.fetch # "reject"
       THEN pc' = "fetched" /\ result' = result
       ELSE pc' = "done" /\ result' = Failure(Error("Failed to fetch"))
    /\ UNCHANGED <<store, parked, doc, fault, tree, sourceCRS, cityObjects, idx, buildings, bounds>>

\* const response = await fetch(url); if (!response.ok) throw ...
Fetch ==
    /\ pc = "start"
    /\ IF doc.fetch = "ok"
       THEN pc' = "fetched" /\ result' = result
       ELSE /\ pc' = "done"
            /\ result' = Failure(Error(IF doc.fetch = "notok"
                                       THEN "Failed to fetch CityGML file"
                                       ELSE "Failed to fetch"))
    /\ UNCHANGED <<store, parked, doc, fault, tree, sourceCRS, cityObjects, idx, buildings, bounds>>

\* const gmlContent = await response.text(); const result = parser.parse(gmlContent)
Parse ==
    /\ pc = "fetched"
    /\ IF doc.xml = "ok"
       THEN pc' = "parsed" /\ tree' = parse(ElementTree(doc)) /\ result' = result
       ELSE /\ pc' = "done"
            /\ tree' = tree
            /\ result' = Failure(Error("Unexpected end of input"))
    /\ UNCHANGED <<store, parked, doc, fault, sourceCRS, cityObjects, idx, buildings, bounds>>

\* Locate with the buildings list at module level: it is not allocated anew.
LocateKeepsBuildings ==
    /\ pc = "parsed"
    /\ LET cityModel == Or(Get(tree, "CityModel"), Get(tree, "core:CityModel"))
       IN  IF ~Truthy(cityModel)
           THEN /\ pc' = "done"
                /\ result' = Failure(Error("Invalid CityGML: No CityModel found"))
                /\ UNCHANGED <<sourceCRS, cityObjects, idx, buildings, bounds>>
           ELSE /\ pc' = "loop"
                /\ sourceCRS' = extractCRS(cityModel)
                /\ buildings' = buildings
                /\ bounds' = InitialBounds
                /\ cityObjects' = AsList(Or(Get(cityModel, "cityObjectMember"), Arr(<<>>)))
                /\ idx' = 1
                /\ result' = result
    /\ UNCHANGED <<store, parked, doc, fault, tree>>

\* Locate with the bounds object at module level: it is not allocated anew.
LocateKeepsBounds ==
    /\ pc = "parsed"
    /\ LET cityModel == Or(Get(tree, "CityModel"), Get(tree, "core:CityModel"))
       IN  IF ~Truthy(cityModel)
           THEN /\ pc' = "done"
                /\ result' = Failure(Error("Invalid CityGML: No CityModel found"))
                /\ UNCHANGED <<sourceCRS, cityObjects, idx, buildings, bounds>>
           ELSE /\ pc' = "loop"
                /\ sourceCRS' = extractCRS(cityModel)
                /\ buildings' = <<>>
                /\ bounds' = bounds
                /\ cityObjects' = AsList(Or(Get(cityModel, "cityObjectMember"), Arr(<<>>)))
                /\ idx' = 1
                /\ result' = result
    /\ UNCHANGED <<store, parked, doc, fault, tree>>

\* From the CityModel lookup to the start of the loop.
Locate ==
    /\ pc = "parsed"
    /\ LET cityModel == Or(Get(tree, "CityModel"), Get(tree, "core:CityModel"))
       IN  IF ~Truthy(cityModel)
           THEN /\ pc' = "done"
                /\ result' = Failure(Error("Invalid CityGML: No CityModel found"))
                /\ UNCHANGED <<sourceCRS, cityObjects, idx, buildings, bounds>>
           ELSE /\ pc' = "loop"
                /\ sourceCRS' = extractCRS(cityModel)
                /\ buildings' = <<>>
                /\ bounds' = InitialBounds
                /\ cityObjects' = AsList(Or(Get(cityModel, "cityObjectMember"), Arr(<<>>)))
                /\ idx' = 1
                /\ result' = result
    /\ UNCHANGED <<store, parked, doc, fault, tree>>

\* The state after one iteration: the loop goes on, or the exception that
\* left it reaches the outer catch.
Step(next) ==
    /\ buildings' = next.buildings
    /\ bounds' = next.bounds
    /\ IF next.thrown
       THEN /\ pc' = "done"
            /\ idx' = idx
            /\ result' = Failure(Error("Cannot read properties of undefined"))
       ELSE /\ pc' = "loop"
            /\ idx' = idx + 1
            /\ result' = result

\* One iteration of the loop over the members.
ProcessMember ==
    /\ pc = "loop"
    /\ idx <= Len(cityObjects)
    /\ Step(LoopBody(cityObjects[idx], sourceCRS, buildings, bounds,
                     IF fault.at = idx THEN fault.stage ELSE "none"))
    /\ UNCHANGED <<store, parked, doc, fault, tree, sourceCRS, cityObjects>>

\* The loop is over: return { success: true, data: ... }.
Return ==
    /\ pc = "loop"
    /\ idx > Len(cityObjects)
    /\ pc' = "done"
    /\ result' = Success(buildings, bounds, sourceCRS)
    /\ UNCHANGED <<store, parked, doc, fault, tree, sourceCRS, cityObjects, idx, buildings, bounds>>

Next == Fetch \/ Parse \/ Locate \/ ProcessMember \/ Return

Spec == Init /\ [][Next]_vars

(***************************************************************************)
(* The same dispatcher run on the tree as the extractors read it: the tree *)
(* the parser builds when no element name is forced into an array, so an   *)
(* element that occurs once is a single node.                              *)
(***************************************************************************)
InitDirect ==
    /\ doc \in {d \in Documents : d.fetch = "ok" /\ d.xml = "ok"}
    /\ fault \in Faults(doc)
    /\ pc = "parsed"
    /\ tree = ParseNode(ElementTree(doc), {})
    /\ sourceCRS = ""
    /\ cityObjects = <<>>
    /\ idx = 0
    /\ buildings = <<>>
    /\ bounds = InitialBounds
    /\ result = Pending
    /\ parked = <<>>
    /\ store = EmptyStore

NextDirect == Locate \/ ProcessMember \/ Return

SpecDirect == InitDirect /\ [][NextDirect]_vars

(***************************************************************************)
(* The same run on documents made of the members of ShapeNames and of the  *)
(* minimal building and the road.                                          *)
(***************************************************************************)
ShapeDocuments ==
    [fetch : {"ok"}, xml : {"ok"}, root : {"CityModel"}, srs : SrsNames,
     members : SeqsUpTo(ShapeNames \cup {"full", "road"}, MaxMembers)]

InitShapes ==
    /\ doc \in ShapeDocuments
    /\ fault \in Faults(doc)
    /\ pc = "parsed"
    /\ tree = ParseNode(ElementTree(doc), {})
    /\ sourceCRS = ""
    /\ cityObjects = <<>>
    /\ idx = 0
    /\ buildings = <<>>
    /\ bounds = InitialBounds
    /\ result = Pending
    /\ parked = <<>>
    /\ store = EmptyStore

SpecShapes == InitShapes /\ [][NextDirect]_vars

(***************************************************************************)
(* The same run on documents spelled with namespace prefixes: every        *)
(* recognised tag and the id attribute carry their prefix.                 *)
(***************************************************************************)
\* The element tree with every recognised name spelled with its prefix.
RECURSIVE Prefixed(_)
Prefixed(x) ==
    CASE x.k = "object" ->
           Obj([n \in {PrefixedName(m) : m \in DOMAIN x.v} |->
                   Prefixed(x.v[CHOOSE m \in DOMAIN x.v : PrefixedName(m) = n])])
      [] x.k = "array" -> Arr([i \in 1..Len(x.v) |-> Prefixed(x.v[i])])
      [] OTHER -> x

PrefixedDocuments ==
    [fetch : {"ok"}, xml : {"ok"}, root : {"CityModel"}, srs : SrsNames,
     members : {<<m>> : m \in MemberNames \cup ShapeNames}
                   \cup {<<>>, <<"full", "parts">>}]

InitPrefixed ==
    /\ doc \in PrefixedDocuments
    /\ fault \in Faults(doc)
    /\ pc = "parsed"
    /\ tree = ParseNode(Prefixed(ElementTree(doc)), {})
    /\ sourceCRS = ""
    /\ cityObjects = <<>>
    /\ idx = 0
    /\ buildings = <<>>
    /\ bounds = InitialBounds
    /\ result = Pending
    /\ parked = <<>>
    /\ store = EmptyStore

SpecPrefixed == InitPrefixed /\ [][NextDirect]_vars

(***************************************************************************)
(* The whole pipeline on documents that declare their reference system in  *)
(* each of the ways of CrsNames.                                           *)
(***************************************************************************)
CrsDocuments ==
    [fetch : {"ok"}, xml : {"ok"}, root : {"CityModel", "core:CityModel"},
     srs : CrsNames, members : SeqsUpTo({"full", "road"}, MaxMembers)]

InitCrs ==
    /\ doc \in CrsDocuments
    /\ fault \in Faults(doc)
    /\ pc = "start"
    /\ tree = Undef
    /\ sourceCRS = ""
    /\ cityObjects = <<>>
    /\ idx = 0
    /\ buildings = <<>>
    /\ bounds = InitialBounds
    /\ result = Pending
    /\ parked = <<>>
    /\ store = EmptyStore

SpecCrs == InitCrs /\ [][Next]_vars

(***************************************************************************)
(* Several invocations on one thread.  An invocation gives up the thread   *)
(* at `await fetch(url)` (pc = "start") and at `await response.text()`     *)
(* (pc = "fetched") and when it has returned; from the parse to the return *)
(* it runs without interruption.  Switch hands the thread to a suspended   *)
(* invocation: doc, fault, pc and result change hands, while tree,         *)
(* sourceCRS, cityObjects, idx, buildings and bounds keep whatever the     *)
(* last run left in them until the code assigns them.  The tree is built   *)
(* as the extractors read it, as in SpecDirect, so that results carry      *)
(* buildings and bounds.                                                   *)
(***************************************************************************)

\* The invocations the host starts.
MaxCalls == 3

\* The documents they are given.
CallDocuments ==
    {[fetch |-> "ok", xml |-> "ok", root |-> "CityModel", srs |-> "none",
      members |-> <<>>],
     [fetch |-> "ok", xml |-> "ok", root |-> "CityModel", srs |-> "envelope",
      members |-> <<"full">>],
     [fetch |-> "ok", xml |-> "ok", root |-> "CityModel", srs |-> "none",
      members |-> <<"zdiff", "pole">>],
     [fetch |-> "ok", xml |-> "ok", root |-> "CityModel", srs |-> "root",
      members |-> <<"ragged", "solid">>],
     [fetch |-> "notok", xml |-> "ok", root |-> "CityModel", srs |-> "none",
      members |-> <<"full">>]}

\* An invocation off the thread.
Call(d, f, at, res) == [doc |-> d, fault |-> f, pc |-> at, result |-> res]

InitCalls ==
    /\ doc \in CallDocuments
    /\ fault = NoFault
    /\ pc = "start"
    /\ tree = Undef
    /\ sourceCRS = ""
    /\ cityObjects = <<>>
    /\ idx = 0
    /\ buildings = <<>>
    /\ bounds = InitialBounds
    /\ result = Pending
    /\ parked \in [1..(MaxCalls - 1) ->
                     {Call(d, NoFault, "start", Pending) : d \in CallDocuments}]
    /\ store = EmptyStore

\* const gmlContent = await response.text(); parser.parse(gmlContent), the
\* tree being delivered as the extractors read it.
ParseAsRead ==
    /\ pc = "fetched"
    /\ IF doc.xml = "ok"
       THEN /\ pc' = "parsed"
            /\ tree' = ParseNode(ElementTree(doc), {})
            /\ result' = result
       ELSE /\ pc' = "done"
            /\ tree' = tree
            /\ result' = Failure(Error("Unexpected end of input"))
    /\ UNCHANGED <<store, parked, doc, fault, sourceCRS, cityObjects, idx, buildings, bounds>>

\* The invocation on the thread awaits or has returned, and a suspended one
\* is resumed.
Switch ==
    /\ pc \in {"start", "fetched", "done"}
    /\ \E i \in 1..Len(parked) :
           /\ parked[i].pc # "done"
           /\ doc' = parked[i].doc
           /\ fault' = parked[i].fault
           /\ pc' = parked[i].pc
           /\ result' = parked[i].result
           /\ parked' = [parked EXCEPT ![i] = Call(doc, fault, pc, result)]
    /\ UNCHANGED <<store, tree, sourceCRS, cityObjects, idx, buildings, bounds>>

NextCalls == Fetch \/ ParseAsRead \/ Locate \/ ProcessMember \/ Return \/ Switch

SpecCalls == InitCalls /\ [][NextCalls]_vars

(***************************************************************************)
(* What the claims are stated over.                                        *)
(***************************************************************************)

\* The run has ended with { success: true, data }.
Succeeded == pc = "done" /\ result.success

\* The building element of a member, and the element a record came from.
BuildingOf(member) == Or(Get(member, "Building"), Get(member, "bldg:Building"))

IdOf(building) == Or(Get(building, "@_gml:id"), Get(building, "@_id"))

ElementOf(id) ==
    BuildingOf(cityObjects[CHOOSE i \in 1..Len(cityObjects) :
                               /\ Truthy(BuildingOf(cityObjects[i]))
                               /\ IdOf(BuildingOf(cityObjects[i])) = id])

\* a >= b and a <= b on JavaScript numbers: false as soon as one is NaN.
Geq(a, b) == a.k = "number" /\ b.k = "number" /\ a.v >= b.v
Leq(a, b) == a.k = "number" /\ b.k = "number" /\ a.v <= b.v

\* The scenario "minimal valid building": one Building, measuredHeight 12.5,
\* storeysAboveGround 4, one closed 5-point ring, in a projected system.
MinimalDoc ==
    [fetch |-> "ok", xml |-> "ok", root |-> "CityModel", srs |-> "envelope",
     members |-> <<"full">>]

(***************************************************************************)
(* C1: run on the tree the parser delivers, the minimal document yields    *)
(* success with exactly one building record of height 12.5 and 4 floors    *)
(* that has exactly one ring of exactly 5 points.                          *)
(***************************************************************************)
C1_MinimalBuilding ==
    (pc = "done" /\ doc = MinimalDoc /\ fault = NoFault) =>
        /\ result.success
        /\ Len(result.data.buildings) = 1
        /\ result.data.buildings[1].properties.height = Num(125)
        /\ result.data.buildings[1].properties.floors = Num(40)
        /\ Len(result.data.buildings[1].geometry.coordinates) = 1
        /\ Len(result.data.buildings[1].geometry.coordinates[1]) = 5

C4_GracefulDegradation ==
    (pc = "done" /\ fault = NoFault /\ doc.fetch = "ok" /\ doc.xml = "ok"
     /\ doc.root # "other") =>
        /\ result.success
        /\ \A i \in 1..Len(cityObjects) :
               Truthy(BuildingOf(cityObjects[i])) =>
                   ((\E j \in 1..Len(result.data.buildings) :
                         result.data.buildings[j].id = IdOf(BuildingOf(cityObjects[i])))
                    <=> Len(extractGroundSurfaces(BuildingOf(cityObjects[i]), sourceCRS,
                                                  InitialBounds).surfaces) > 0)
        /\ doc.members = <<"full", "bare">> => Len(result.data.buildings) = 1

(***************************************************************************)
(* C5: a failed fetch, a parser exception and a tree without CityModel     *)
(* each end the run with { success: false, error } where error is a        *)
(* non-empty string and there is no data; a result with success = true     *)
(* carries data with a buildings list and no error.                        *)
(***************************************************************************)
C5_FatalFailuresReturned ==
    pc = "done" =>
        /\ (doc.fetch # "ok" \/ doc.xml # "ok" \/ doc.root = "other") =>
               /\ DOMAIN result = {"success", "error"}
               /\ ~result.success
               /\ result.error # ""
        /\ DOMAIN result \in {{"success", "error"}, {"success", "data"}}
        /\ result.success =>
               /\ DOMAIN result = {"success", "data"}
               /\ "buildings" \in DOMAIN result.data

C5_Witness ==
    /\ pc = "done"
    /\ doc.root = "other"
    /\ ~result.success
    /\ result.error = "Invalid CityGML: No CityModel found"

(***************************************************************************)
(* C6: an exception raised while the k-th member is processed skips that   *)
(* building alone: the result keeps success = true and its buildings are   *)
(* those of all the other members, in order.                               *)
(***************************************************************************)
\* The exception of this run was raised: at the member itself, or inside
\* the try block, which only a member with a building enters.
FaultRaised ==
    /\ fault.at \in 1..Len(cityObjects)
    /\ fault.stage = "member" \/ Truthy(BuildingOf(cityObjects[fault.at]))

\* The records of the members other than the skip-th, collected in order.
RECURSIVE BuildingsWithout(_, _, _, _)
BuildingsWithout(members, j, skip, acc) ==
    IF j > Len(members) THEN acc
    ELSE BuildingsWithout(members, j + 1, skip,
             IF j = skip THEN acc
             ELSE LoopBody(members[j], sourceCRS, acc, InitialBounds, "none").buildings)

ClaimedHeight(building) ==
    LET measured == parseFloat(Or(Get(building, "measuredHeight"), Str0))
        aboveGround == parseFloat(Or(Get(building, "heightAboveGround"), Str0))
        largest == MathMax(MathMax(measured, aboveGround), boundingBoxHeight(building))
    IN  IF largest = Num(0) THEN Num(DefaultHeight) ELSE largest

C7_HeightRule ==
    Succeeded =>
        \A j \in 1..Len(result.data.buildings) :
            result.data.buildings[j].properties.height
                = ClaimedHeight(ElementOf(result.data.buildings[j].id))

(***************************************************************************)
(* C8: floors is storeysAboveGround when that count is positive, else      *)
(* ceil(height / 3) of the building's height, and is in every case a       *)
(* positive integer.                                                       *)
(***************************************************************************)
ClaimedFloors(building, height) ==
    LET storeys == parseInt(Or(Get(building, "storeysAboveGround"), Str0))
    IN  IF Positive(storeys) THEN storeys ELSE CeilThird(height)

C8_FloorsRule ==
    Succeeded =>
        \A j \in 1..Len(result.data.buildings) :
            LET p == result.data.buildings[j].properties
            IN  /\ p.floors = ClaimedFloors(ElementOf(result.data.buildings[j].id),
                                            p.height)
                /\ Positive(p.floors)
                /\ p.floors.v % 10 = 0

RawPositions(surface) ==
    LET ring == Get(Get(Get(surface, "Polygon"), "exterior"), "LinearRing")
        posList == Get(ring, "posList")
        tokens == IF posList.k = "string" THEN SplitNumbers(posList) ELSE <<>>
        posArray == SelectSeq(AsList(Or(Get(ring, "pos"), Arr(<<>>))),
                              LAMBDA pos : pos.k = "string")
    IN  IF Truthy(posList)
        THEN [i \in 1..((Len(tokens) + 2) \div 3) |->
                 <<At(tokens, 3 * i - 3), At(tokens, 3 * i - 2), At(tokens, 3 * i - 1)>>]
        ELSE [i \in 1..Len(posArray) |-> SplitNumbers(posArray[i])]

\* The non-empty rings of a list of surfaces, in order.
RawRings(surfaces) ==
    SelectSeq([i \in 1..Len(surfaces) |-> RawPositions(surfaces[i])],
              LAMBDA ring : ring # <<>>)

\* The rings of a building element in the order its record lists them: those
\* of its ground surfaces, or else those of the shell of its solid.
SourceRings(building) ==
    LET ground == RawRings(AsList(Or(Get(building, "GroundSurface"), Arr(<<>>))))
        shell == Get(Get(Or(Get(building, "lod2Solid"), Get(building, "lod1Solid")),
                         "exterior"), "Shell")
    IN  IF ground # <<>> THEN ground
        ELSE RawRings(AsList(Or(Get(shell, "surfaceMember"), Arr(<<>>))))

\* The returned records, and the vertices of all their rings.
Returned == result.data.buildings

RingsOf(j) == Returned[j].geometry.coordinates

Vertices ==
    UNION {UNION {{RingsOf(j)[r][i] : i \in 1..Len(RingsOf(j)[r])} :
                  r \in 1..Len(RingsOf(j))} :
           j \in 1..Len(Returned)}

Transformed(raw, crs) == [i \in 1..Len(raw) |-> transformCoordinates(raw[i], crs)]

C15_ElevationRule ==
    Succeeded =>
        \A j \in 1..Len(Returned) :
            LET source == SourceRings(ElementOf(Returned[j].id))
            IN  \A r \in 1..Len(RingsOf(j)) :
                    /\ r <= Len(source)
                    /\ Len(source[r]) <= Len(RingsOf(j)[r])
                    /\ \A i \in 1..Len(source[r]) :
                           LET raw == source[r][i]
                               out == RingsOf(j)[r][i]
                           IN  /\ Len(out) = 3
                               /\ \A c \in 0..2 : At(out, c).k = "number"
                               /\ At(out, 2) = IF At(raw, 2).k = "number"
                                               THEN At(raw, 2) ELSE Num(0)
                               /\ sourceCRS = "EPSG:4326" =>
                                      /\ At(out, 0) = At(raw, 0)
                                      /\ At(out, 1) = At(raw, 1)

(***************************************************************************)
(* C16: a position whose transformation fails (a malformed position, or a  *)
(* source system proj4 does not know) is returned as it was written, at    *)
(* its place in the ring; the other positions of the ring are transformed, *)
(* every source ring of the building is returned, and the output ring has  *)
(* as many vertices as the source ring has positions, plus at most one.    *)
(***************************************************************************)
\* proj4 is called on the position and throws.
TransformFails(coords, crs) ==
    crs # "EPSG:4326" /\ proj4Throws(crs, At(coords, 0), At(coords, 1))

\* The members that have a building element with at least one source ring.
WithRings ==
    {i \in 1..Len(cityObjects) :
        /\ Truthy(BuildingOf(cityObjects[i]))
        /\ SourceRings(BuildingOf(cityObjects[i])) # <<>>}

C16_ReprojectionDegrades ==
    Succeeded =>
        /\ fault = NoFault => Len(Returned) = Cardinality(WithRings)
        /\ \A j \in 1..Len(Returned) :
               LET source == SourceRings(ElementOf(Returned[j].id))
               IN  /\ Len(RingsOf(j)) = Len(source)
                   /\ \A r \in 1..Len(source) :
                          /\ Len(RingsOf(j)[r]) \in {Len(source[r]), Len(source[r]) + 1}
                          /\ \A i \in 1..Len(source[r]) :
                                 LET raw == source[r][i]
                                     out == RingsOf(j)[r][i]
                                 IN  IF TransformFails(raw, sourceCRS)
                                     THEN out = raw
                                     ELSE sourceCRS # "EPSG:4326" =>
                                              /\ At(out, 0) = proj4(sourceCRS, raw[1], raw[2])[1]
                                              /\ At(out, 1) = proj4(sourceCRS, raw[1], raw[2])[2]

\* A returned ring in which one position was transformed and a later one,
\* which proj4 rejected, stands as written; and a ring of a document whose
\* source system proj4 does not know.
C16_Witness ==
    /\ Succeeded
    /\ sourceCRS = "EPSG:31256"
    /\ \E j \in 1..Len(Returned) :
           LET source == SourceRings(ElementOf(Returned[j].id))
           IN  /\ Len(source) = 1
               /\ Len(source[1]) = 2
               /\ ~TransformFails(source[1][1], sourceCRS)
               /\ TransformFails(source[1][2], sourceCRS)
               /\ RingsOf(j)[1][1] # source[1][1]
               /\ RingsOf(j)[1][2] = source[1][2]
               /\ Len(RingsOf(j)[1]) = 3

(***************************************************************************)
(* The invocations of a run, and the result of an invocation run alone.    *)
(***************************************************************************)
Calls == <<Call(doc, fault, pc, result)>> \o parked

\* The loop over the members, from the j-th on.
RECURSIVE LoopAlone(_, _, _, _)
LoopAlone(members, j, crs, acc) ==
    IF j > Len(members) THEN acc
    ELSE LoopAlone(members, j + 1, crs,
                   LoopBody(members[j], crs, acc.buildings, acc.bounds, "none"))

\* What processCityGML returns for a document of CallDocuments when it is
\* the only invocation.
RunAlone(d) ==
    LET parsed == ParseNode(ElementTree(d), {})
        cityModel == Or(Get(parsed, "CityModel"), Get(parsed, "core:CityModel"))
        crs == extractCRS(cityModel)
        end == LoopAlone(AsList(Or(Get(cityModel, "cityObjectMember"), Arr(<<>>))),
                         1, crs,
                         [buildings |-> <<>>, bounds |-> InitialBounds,
                          thrown |-> FALSE])
    IN  IF d.fetch # "ok" THEN Failure(Error("Failed to fetch CityGML file"))
        ELSE IF ~Truthy(cityModel)
             THEN Failure(Error("Invalid CityGML: No CityModel found"))
             ELSE Success(end.buildings, end.bounds, crs)

(***************************************************************************)
(* C17: two invocations on the same document that have returned, whatever  *)
(* ran before, between and after them, returned the same result: the same  *)
(* success flag, buildings, bounds and source reference system.            *)
(***************************************************************************)
C17_Idempotence ==
    \A a, b \in 1..Len(Calls) :
        (/\ Calls[a].pc = "done" /\ Calls[b].pc = "done"
         /\ Calls[a].doc = Calls[b].doc /\ Calls[a].fault = Calls[b].fault)
            => Calls[a].result = Calls[b].result

\* Two invocations on one document and a third on another have all
\* returned, each with buildings and bounds.
C17_Witness ==
    \E a, b, c \in 1..Len(Calls) :
        /\ a # b
        /\ Calls[a].doc = Calls[b].doc
        /\ Calls[c].doc # Calls[a].doc
        /\ \A x \in {a, b, c} :
               /\ Calls[x].pc = "done"
               /\ Calls[x].result.success
               /\ Len(Calls[x].result.data.buildings) > 0
               /\ Calls[x].result.data.bounds # Undef

(***************************************************************************)
(* C18: every invocation that has returned, however the invocations        *)
(* interleaved at their awaits, returned the result it returns when run    *)
(* alone; nothing of another document is in it.                            *)
(***************************************************************************)
C18_Independence ==
    \A a \in 1..Len(Calls) :
        Calls[a].pc = "done" => Calls[a].result = RunAlone(Calls[a].doc)

\* Two invocations on different documents have both returned, one with one
\* building and one with two.
C18_Witness ==
    \E a, b \in 1..Len(Calls) :
        /\ Calls[a].doc # Calls[b].doc
        /\ Calls[a].pc = "done" /\ Calls[b].pc = "done"
        /\ Calls[a].result.success /\ Calls[b].result.success
        /\ Len(Calls[a].result.data.buildings) = 1
        /\ Len(Calls[b].result.data.buildings) = 2

(***************************************************************************)
(* C19: every building element that yields a ring is returned, with        *)
(* height, floors, yearBuilt, buildingType and groundLevel all defined;    *)
(* a field whose source is absent or unparsable has its default: height    *)
(* 10, floors ceil(height / 3), yearBuilt 2000, buildingType 'UNKNOWN',    *)
(* groundLevel 0.                                                          *)
(***************************************************************************)
\* Neither undefined nor NaN.
Defined(x) == x.k \notin {"undefined", "NaN"}

\* The field is absent, or its text does not start with a number.
NoNumber(field) == field = Undef \/ parseFloat(field).k # "number"

\* The z of the lower and of the upper corner of the element's envelope.
CornerZ(building, corner) ==
    LET text == Get(Get(Get(building, "boundedBy"), "Envelope"), corner)
    IN  IF text.k = "string" THEN At(SplitNumbers(text), 2) ELSE Undef

ClaimedBuildingType(building) ==
    IF Get(building, "function") # Undef THEN Get(building, "function")
    ELSE IF Get(building, "usage") # Undef THEN Get(building, "usage")
    ELSE Text("UNKNOWN")

C20_BuildingTypeRule ==
    Succeeded =>
        \A j \in 1..Len(Returned) :
            /\ Returned[j].properties.buildingType
                   = ClaimedBuildingType(ElementOf(Returned[j].id))
            /\ Returned[j].properties.buildingType.k = "string"

(***************************************************************************)
(* The rings of an element and of its parts, for the claims on the         *)
(* geometry extractor.                                                     *)
(***************************************************************************)

\* The surfaces the element lists as GroundSurface, and the surface members
\* of the shell of its solid.
GroundOf(element) == AsList(Or(Get(element, "GroundSurface"), Arr(<<>>)))

ShellMembersOf(element) ==
    AsList(Or(Get(Get(Get(Or(Get(element, "lod2Solid"), Get(element, "lod1Solid")),
                          "exterior"), "Shell"), "surfaceMember"),
              Arr(<<>>)))

\* The BuildingPart elements directly inside an element.
DirectParts(element) ==
    SelectSeq(AsList(Or(Get(element, "BuildingPart"), Arr(<<>>))),
              LAMBDA part : Truthy(part))

\* The concatenation of a sequence of sequences.
RECURSIVE Flatten(_)
Flatten(seqs) == IF seqs = <<>> THEN <<>> ELSE Head(seqs) \o Flatten(Tail(seqs))

\* The output rings are the source rings, one for one and in order: each
\* output ring starts with the transformed positions of its source ring.
RingsMatch(out, source, crs) ==
    /\ Len(out) = Len(source)
    /\ \A r \in 1..Len(source) :
           /\ Len(out[r]) >= Len(source[r])
           /\ SubSeq(out[r], 1, Len(source[r])) = Transformed(source[r], crs)

\* The returned records that carry an id.
RecordsOf(id) == {j \in 1..Len(Returned) : Returned[j].id = id}

(***************************************************************************)
(* C21: the rings of an element (a building or a part) are those of its    *)
(* ground surfaces whenever it declares a GroundSurface, even one that     *)
(* yields no ring, and those of the shell of its solid only when it        *)
(* declares none.                                                          *)
(***************************************************************************)
PrecedenceRings(element) ==
    IF Get(element, "GroundSurface") # Undef
    THEN RawRings(GroundOf(element))
    ELSE RawRings(ShellMembersOf(element))

RingsWithParts(building) ==
    LET parts == DirectParts(building)
    IN  SourceRings(building)
            \o Flatten([k \in 1..Len(parts) |-> SourceRings(parts[k])])

C22_PartsAppended ==
    Succeeded =>
        \A j \in 1..Len(Returned) :
            LET expected == RingsWithParts(ElementOf(Returned[j].id))
            IN  /\ RingsMatch(RingsOf(j), expected, sourceCRS)
                /\ \A r \in 1..Len(expected) :
                       Len(RingsOf(j)[r]) <= Len(expected[r]) + 1

\* The building with two parts is returned with its own ring first, then
\* the two rings of its first part, then the ring of the solid of its second.
C22_Witness ==
    /\ Succeeded
    /\ \E j \in 1..Len(Returned) :
           /\ Returned[j].id = Text("S2")
           /\ Len(RingsOf(j)) = 4
           /\ Len(RingsOf(j)[1]) = 5
           /\ Len(RingsOf(j)[3]) = 3
           /\ Len(RingsOf(j)[4]) = 4

(***************************************************************************)
(* C23: the rings of a BuildingPart inside a BuildingPart, at any depth,   *)
(* are among the rings of the enclosing building, in document order, and   *)
(* their vertices lie inside the reported bounds.                          *)
(***************************************************************************)
\* The source rings of an element and of the parts inside it, at any depth.
RECURSIVE DeepRings(_)
DeepRings(element) ==
    LET parts == DirectParts(element)
    IN  SourceRings(element) \o Flatten([k \in 1..Len(parts) |-> DeepRings(parts[k])])

C23_NestedParts ==
    (Succeeded /\ fault = NoFault) =>
        \A j \in 1..Len(Returned) :
            LET deep == DeepRings(ElementOf(Returned[j].id))
                box == result.data.bounds
            IN  /\ RingsMatch(RingsOf(j), deep, sourceCRS)
                /\ box # Undef =>
                       \A r \in 1..Len(deep) :
                           \A i \in 1..Len(deep[r]) :
                               LET v == transformCoordinates(deep[r][i], sourceCRS)
                               IN  /\ Leq(box.south, At(v, 1)) /\ Leq(At(v, 1), box.north)
                                   /\ Leq(box.west, At(v, 0)) /\ Leq(At(v, 0), box.east)

(***************************************************************************)
(* C24: a ring written as pos elements of three numbers each and the same  *)
(* points written as one posList give the same output ring and the same    *)
(* bounds, for every source system; of a ring that carries both, only the  *)
(* posList is read.                                                        *)
(***************************************************************************)
\* The text is a sequence of 3k numbers, k > 0.
IsTriples(text) ==
    /\ text.k = "string"
    /\ Len(text.v) > 0
    /\ Len(text.v) % 3 = 0
    /\ \A i \in 1..Len(text.v) : text.v[i].k = "number"

\* The pos children of a ring, each of which holds three numbers.
IsTriplesEach(posArray) ==
    /\ posArray # <<>>
    /\ \A i \in 1..Len(posArray) : IsTriples(posArray[i]) /\ Len(posArray[i].v) = 3

\* The pos elements that hold the points of a posList: one child is a node,
\* several are an array.
PosOf(text) ==
    LET points == [i \in 1..(Len(text.v) \div 3) |->
                      Str(SubSeq(text.v, 3 * i - 2, 3 * i))]
    IN  IF Len(points) = 1 THEN points[1] ELSE Arr(points)

\* The posList that holds the points of a sequence of pos elements.
PosListOf(posArray) ==
    Str(Flatten([i \in 1..Len(posArray) |-> posArray[i].v]))

\* The same element with every ring written in the other encoding, and with
\* the pos elements of a ring that also has a posList taken away.
RECURSIVE Recode(_)
Recode(x) ==
    CASE x.k = "object" ->
           IF "posList" \in DOMAIN x.v /\ "pos" \in DOMAIN x.v /\ Truthy(x.v["posList"])
           THEN Obj([n \in DOMAIN x.v \ {"pos"} |-> x.v[n]])
           ELSE IF "posList" \in DOMAIN x.v /\ IsTriples(x.v["posList"])
           THEN Obj([n \in (DOMAIN x.v \ {"posList"}) \cup {"pos"} |->
                        IF n = "pos" THEN PosOf(x.v["posList"]) ELSE x.v[n]])
           ELSE IF "pos" \in DOMAIN x.v /\ "posList" \notin DOMAIN x.v
                   /\ IsTriplesEach(AsList(x.v["pos"]))
           THEN Obj([n \in (DOMAIN x.v \ {"pos"}) \cup {"posList"} |->
                        IF n = "posList" THEN PosListOf(AsList(x.v["pos"]))
                        ELSE x.v[n]])
           ELSE Obj([n \in DOMAIN x.v |-> Recode(x.v[n])])
      [] x.k = "array" -> Arr([i \in 1..Len(x.v) |-> Recode(x.v[i])])
      [] OTHER -> x

C24_EncodingsEquivalent ==
    (pc = "loop" /\ idx <= Len(cityObjects)) =>
        LoopBody(Recode(cityObjects[idx]), sourceCRS, buildings, bounds, "none")
            = LoopBody(cityObjects[idx], sourceCRS, buildings, bounds, "none")

\* The same five points were read from pos elements for one building and
\* from a posList for the next, and the two records have the same geometry.
C24_Witness ==
    /\ Succeeded
    /\ doc.members = <<"viapos", "full">>
    /\ Len(Returned) = 2
    /\ Recode(cityObjects[1]) # cityObjects[1]
    /\ Returned[1].geometry = Returned[2].geometry
    /\ Len(RingsOf(1)[1]) = 5

(***************************************************************************)
(* C25: the reported source system is the srsName of the container's       *)
(* envelope when it has one, else the srsName of the container root when   *)
(* it has one, else 'EPSG:4326'; an envelope without srsName falls through *)
(* to the root; and reading it never makes the document fail.              *)
(***************************************************************************)
\* The system an srsName names, in the short form the result carries.
SystemOf(srsName) ==
    IF srsName.k = "string" THEN StripUrn(srsName.v[1].v) ELSE ToString(srsName.v)

ClaimedCRS(cityModel) ==
    LET envSrs == Get(Get(Get(cityModel, "boundedBy"), "Envelope"), "@_srsName")
        rootSrs == Get(cityModel, "@_srsName")
    IN  IF envSrs # Undef THEN SystemOf(envSrs)
        ELSE IF rootSrs # Undef THEN SystemOf(rootSrs)
        ELSE "EPSG:4326"

C25_SourceSystemPrecedence ==
    (pc = "done" /\ fault.stage # "member") =>
        /\ result.success
        /\ result.data.sourceCRS = ClaimedCRS(Get(tree, "CityModel"))

(***************************************************************************)
(* C26: the iteration over a member that has no Building element adds no   *)
(* record, changes no bounds and raises no error, and the records of a     *)
(* successful result are those of the building members that were kept, in  *)
(* document order.                                                         *)
(***************************************************************************)
\* The ids of the building members that are kept, in document order: those
\* with a ring whose processing raised no exception.
KeptIds ==
    LET kept == SelectSeq([i \in 1..Len(cityObjects) |-> i],
                          LAMBDA i : i \in WithRings /\ i # fault.at)
    IN  [n \in 1..Len(kept) |-> IdOf(BuildingOf(cityObjects[kept[n]]))]

C26_NonBuildingSkipped ==
    /\ [](Succeeded => [j \in 1..Len(Returned) |-> Returned[j].id] = KeptIds)
    /\ [][(/\ pc = "loop"
           /\ idx <= Len(cityObjects)
           /\ ~Truthy(BuildingOf(cityObjects[idx]))
           /\ ~(fault.at = idx /\ fault.stage = "member"))
              => /\ buildings' = buildings
                 /\ bounds' = bounds
                 /\ pc' = "loop"
                 /\ idx' = idx + 1
                 /\ result' = result]_vars

\* A road before a building: the building is returned, and the bounds are
\* those of its ring.
C26_Witness ==
    /\ Succeeded
    /\ fault = NoFault
    /\ doc.members = <<"road", "full">>
    /\ Len(Returned) = 1
    /\ Returned[1].id = Text("B1")
    /\ bounds # InitialBounds

DeclaredRings(building) ==
    LET all(element) ==
            [i \in 1..Len(GroundOf(element)) |-> RawPositions(GroundOf(element)[i])]
                \o [i \in 1..Len(ShellMembersOf(element)) |->
                       RawPositions(ShellMembersOf(element)[i])]
        parts == DirectParts(building)
    IN  all(building) \o Flatten([k \in 1..Len(parts) |-> all(parts[k])])

C28_EmptyRingsDropped ==
    (pc = "done" /\ fault = NoFault) =>
        /\ result.success
        /\ \A j \in 1..Len(Returned) :
               /\ RingsOf(j) # <<>>
               /\ \A r \in 1..Len(RingsOf(j)) : RingsOf(j)[r] # <<>>
        /\ \A i \in 1..Len(cityObjects) :
               LET b == BuildingOf(cityObjects[i])
                   kept == RingsWithParts(b)
               IN  Truthy(b) =>
                       IF kept = <<>> THEN RecordsOf(IdOf(b)) = {}
                       ELSE /\ RecordsOf(IdOf(b)) # {}
                            /\ \A j \in RecordsOf(IdOf(b)) :
                                   Len(RingsOf(j)) = Len(kept)

\* A building that declares three rings, two of them without positions, is
\* returned with the one ring that has some; the building after it, whose
\* only ring has none, is left out.
C28_Witness ==
    /\ Succeeded
    /\ fault = NoFault
    /\ doc.members = <<"empty", "hollow">>
    /\ Len(DeclaredRings(BuildingOf(cityObjects[1]))) = 3
    /\ Len(DeclaredRings(BuildingOf(cityObjects[2]))) = 1
    /\ Len(Returned) = 1
    /\ Returned[1].id = Text("S5")
    /\ Len(RingsOf(1)) = 1
    /\ Len(RingsOf(1)[1]) = 5

(***************************************************************************)
(* The hand-over to the store.  processCityGMLFile awaits the pipeline and *)
(* inserts the buildings it returned into the buildings table, a batch at  *)
(* a time; syncViennaBuildingsToDatabase writes to the same table with an  *)
(* upsert.  The table carries the constraint                               *)
(* UNIQUE (project_id, source_type, source_id).                            *)
(***************************************************************************)
\* const batchSize = 100
batchSize == 100

\* The calls that hand records over, one after the other.
MaxImports == 2

Projects == {"p1", "p2"}

Files == {"one.gml", "many.gml"}

\* What the pipeline returns for the document behind a url: the result of
\* the minimal document, which has one building, or that result with as
\* many buildings as fill two batches and start a third.
ResultOf(fileUrl) ==
    LET one == RunAlone(MinimalDoc)
        building == one.data.buildings[1]
    IN  IF fileUrl = "one.gml" THEN one
        ELSE [one EXCEPT !.data.buildings =
                 [k \in 1..(2 * batchSize + 1) |->
                     [building EXCEPT !.id = Text(ToString(k))]]]

\* The same url when the document cannot be fetched.
FailedResult == RunAlone([MinimalDoc EXCEPT !.fetch = "notok"])

\* The records a Vienna sync is given.
ViennaBuildings ==
    <<[ogc_fid |-> 7, height |-> Num(100)], [ogc_fid |-> 8, height |-> Num(120)]>>

\* batch.map(building => ({ project_id, source_type: 'citygml', ... })): no
\* source_id is given, so the column is NULL (Undef here).
CityGMLRow(projectId, fileUrl, building) ==
    [project_id |-> projectId,
     source_type |-> "citygml",
     source_file |-> Text(fileUrl),
     source_id |-> Undef,
     geometry |-> [type |-> "GeometryZ",
                   coordinates |-> building.geometry.coordinates,
                   crs |-> "EPSG:4326"],
     height |-> building.properties.height,
     properties |-> [floors |-> building.properties.floors,
                     yearBuilt |-> building.properties.yearBuilt,
                     buildingType |-> building.properties.buildingType,
                     groundLevel |-> building.properties.groundLevel,
                     originalId |-> building.id]]

\* batch.map(building => ({ project_id, source_type: 'vienna_wfs',
\* source_id: building.ogc_fid.toString(), ... }))
ViennaRow(projectId, building) ==
    [project_id |-> projectId,
     source_type |-> "vienna_wfs",
     source_file |-> Undef,
     source_id |-> Text(ToString(building.ogc_fid)),
     geometry |-> Undef,
     height |-> building.height,
     properties |-> [ogc_fid |-> building.ogc_fid]]

\* buildings.slice(i, i + batchSize) with everything up to the end.
BatchToEnd(list, i) == SubSeq(list, i + 1, Len(list))

\* buildings.slice(i, i + batchSize)
Batch(list, i) ==
    SubSeq(list, i + 1, IF i + batchSize < Len(list) THEN i + batchSize ELSE Len(list))

\* The columns of buildings_project_source_unique.
UniqueKey(row) == <<row.project_id, row.source_type, row.source_id>>

\* The constraint rejects the new rows: one of them has its key, with a
\* source_id that is not NULL, in the table or twice among the new rows.
\* NULLs are distinct from each other.
ViolatesUnique(rows, new) ==
    \E n \in 1..Len(new) :
        /\ new[n].source_id # Undef
        /\ \/ \E r \in 1..Len(rows) : UniqueKey(rows[r]) = UniqueKey(new[n])
           \/ \E m \in 1..Len(new) : m # n /\ UniqueKey(new[m]) = UniqueKey(new[n])

\* upsert(..., { onConflict: 'project_id,source_type,source_id' }): a new
\* row replaces the row with its key, or is added.
RECURSIVE Upsert(_, _)
Upsert(rows, new) ==
    IF new = <<>> THEN rows
    ELSE LET hit == {r \in 1..Len(rows) :
                        /\ Head(new).source_id # Undef
                        /\ UniqueKey(rows[r]) = UniqueKey(Head(new))}
         IN  Upsert(IF hit = {} THEN Append(rows, Head(new))
                    ELSE [r \in 1..Len(rows) |->
                             IF r \in hit THEN Head(new) ELSE rows[r]],
                    Tail(new))

\* The locals of the pipeline, which no call of this section touches.
pipelineVars ==
    <<doc, fault, pc, tree, sourceCRS, cityObjects, idx, buildings, bounds,
      result, parked>>

\* No call is under way and another may be made.
CanCall ==
    /\ store.call.pc \in {"idle", "returned", "thrown"}
    /\ store.imports < MaxImports

\* processCityGMLFile(projectId, fileUrl) up to its await.
StartImport ==
    /\ CanCall
    /\ \E projectId \in Projects, fileUrl \in Files :
           store' = [rows |-> store.rows,
                     imports |-> store.imports + 1,
                     call |-> [Idle EXCEPT !.op = "citygml", !.pc = "await",
                                           !.projectId = projectId,
                                           !.fileUrl = fileUrl,
                                           !.before = store.rows]]
    /\ UNCHANGED pipelineVars

\* const result = await processCityGML(fileUrl);
\* if (!result.success || !result.data) throw new Error(result.error || ...)
PipelineReturns ==
    /\ store.call.pc = "await"
    /\ \E res \in {ResultOf(store.call.fileUrl), FailedResult} :
           store' = [store EXCEPT !.call =
               IF res.success
               THEN [@ EXCEPT !.pc = "insert", !.result = res,
                              !.buildings = res.data.buildings, !.i = 0]
               ELSE [@ EXCEPT !.pc = "thrown", !.result = res,
                              !.thrown = <<Error(IF res.error # "" THEN res.error
                                                 ELSE "Failed to process CityGML file")>>]]
    /\ UNCHANGED pipelineVars

\* One call of insert or upsert: the batch it was given and what it reported.
Attempt(from, batch, error) == [from |-> from, batch |-> batch, error |-> error]

\* The call after the store answered a batch: on an error it throws, else
\* the loop goes on with i += batchSize.
AfterBatch(call, batch, error) ==
    IF error
    THEN [call EXCEPT !.pc = "thrown",
                      !.attempts = Append(@, Attempt(call.i, batch, TRUE)),
                      !.thrown = <<Error("insert failed")>>]
    ELSE [call EXCEPT !.i = @ + batchSize,
                      !.attempts = Append(@, Attempt(call.i, batch, FALSE))]

\* One iteration of the loop of processCityGMLFile: the insert of a batch.
\* An insert is one statement: it stores every row or none.  It fails when
\* the constraint rejects it, and may fail for a reason of its own.
InsertBatch ==
    /\ store.call.op = "citygml"
    /\ store.call.pc = "insert"
    /\ store.call.i < Len(store.call.buildings)
    /\ LET batch == Batch(store.call.buildings, store.call.i)
           new == [k \in 1..Len(batch) |->
                      CityGMLRow(store.call.projectId, store.call.fileUrl, batch[k])]
       IN  \E error \in IF ViolatesUnique(store.rows, new) THEN {TRUE}
                        ELSE {FALSE, TRUE} :
               store' = [store EXCEPT
                            !.rows = IF error THEN @ ELSE @ \o new,
                            !.call = AfterBatch(@, batch, error)]
    /\ UNCHANGED pipelineVars

\* The loop is over: return result.data.bounds.
FinishImport ==
    /\ store.call.op = "citygml"
    /\ store.call.pc = "insert"
    /\ store.call.i >= Len(store.call.buildings)
    /\ store' = [store EXCEPT !.call.pc = "returned",
                              !.call.returned = <<store.call.result.data.bounds>>]
    /\ UNCHANGED pipelineVars

\* syncViennaBuildingsToDatabase(projectId, buildings) up to its loop.
StartSync ==
    /\ CanCall
    /\ \E projectId \in Projects :
           store' = [rows |-> store.rows,
                     imports |-> store.imports + 1,
                     call |-> [Idle EXCEPT !.op = "vienna", !.pc = "insert",
                                           !.projectId = projectId,
                                           !.buildings = ViennaBuildings,
                                           !.before = store.rows]]
    /\ UNCHANGED pipelineVars

\* One iteration of the loop of syncViennaBuildingsToDatabase.
UpsertBatch ==
    /\ store.call.op = "vienna"
    /\ store.call.pc = "insert"
    /\ store.call.i < Len(store.call.buildings)
    /\ LET batch == Batch(store.call.buildings, store.call.i)
           new == [k \in 1..Len(batch) |-> ViennaRow(store.call.projectId, batch[k])]
       IN  \E error \in {FALSE, TRUE} :
               store' = [store EXCEPT
                            !.rows = IF error THEN @ ELSE Upsert(@, new),
                            !.call = AfterBatch(@, batch, error)]
    /\ UNCHANGED pipelineVars

\* The loop is over: the promise resolves.
FinishSync ==
    /\ store.call.op = "vienna"
    /\ store.call.pc = "insert"
    /\ store.call.i >= Len(store.call.buildings)
    /\ store' = [store EXCEPT !.call.pc = "returned", !.call.returned = <<Undef>>]
    /\ UNCHANGED pipelineVars

InitStore ==
    /\ doc = MinimalDoc
    /\ fault = NoFault
    /\ pc = "start"
    /\ tree = Undef
    /\ sourceCRS = ""
    /\ cityObjects = <<>>
    /\ idx = 0
    /\ buildings = <<>>
    /\ bounds = InitialBounds
    /\ result = Pending
    /\ parked = <<>>
    /\ store = EmptyStore

NextStore ==
    \/ StartImport \/ PipelineReturns \/ InsertBatch \/ FinishImport
    \/ StartSync \/ UpsertBatch \/ FinishSync

SpecStore == InitStore /\ [][NextStore]_vars

(***************************************************************************)
(* C29: whatever imports were made into a project, the buildings table     *)
(* holds at most one record per project, source type and source id of the  *)
(* building (the id the source gave it).                                   *)
(***************************************************************************)
\* The id a row's source gave its building: the source_id column, or for a
\* row of processCityGMLFile, which leaves the column NULL, the originalId.
SourceIdentity(row) ==
    IF row.source_id # Undef THEN row.source_id ELSE row.properties.originalId

RowsOf(list) ==
    [k \in 1..Len(list) |->
        CityGMLRow(store.call.projectId, store.call.fileUrl, list[k])]

\* The buildings of the batches attempted so far, one after the other, and
\* those of the batches that were inserted.
Attempted ==
    Flatten([a \in 1..Len(store.call.attempts) |-> store.call.attempts[a].batch])

Inserted ==
    Flatten([a \in 1..Len(store.call.attempts) |->
                IF store.call.attempts[a].error THEN <<>>
                ELSE store.call.attempts[a].batch])

C30_BatchedHandOver ==
    LET call == store.call
        n == Len(call.attempts)
    IN  call.op = "citygml" =>
            \* a failure of the pipeline: no insert, and the call throws
            /\ (call.pc \notin {"idle", "await"} /\ ~call.result.success) =>
                   /\ call.pc = "thrown"
                   /\ n = 0
                   /\ store.rows = call.before
                   /\ call.thrown = <<Error(call.result.error)>>
            \* batches of at most 100, consecutive, in result order
            /\ \A a \in 1..n :
                   /\ call.attempts[a].from = (a - 1) * batchSize
                   /\ Len(call.attempts[a].batch) \in 1..batchSize
                   /\ a < n => Len(call.attempts[a].batch) = batchSize
                   /\ a < n => ~call.attempts[a].error
            /\ Attempted = SubSeq(call.buildings, 1, Len(Attempted))
            \* the table holds what was there and the batches inserted
            /\ store.rows = call.before \o RowsOf(Inserted)
            \* an error ends the call at once
            /\ (n > 0 /\ call.attempts[n].error) => call.pc = "thrown"
            /\ (call.pc = "thrown" /\ call.result.success) =>
                   n > 0 /\ call.attempts[n].error
            \* the bounds are returned only after every batch was inserted
            /\ call.pc = "returned" =>
                   /\ Inserted = call.result.data.buildings
                   /\ call.returned = <<call.result.data.bounds>>

\* An import of 201 buildings into a table that held rows: the third batch
\* failed, the call threw, and the first two batches are in the table.
C30_Witness ==
    /\ store.call.op = "citygml"
    /\ store.call.pc = "thrown"
    /\ store.call.result.success
    /\ Len(store.call.result.data.buildings) = 2 * batchSize + 1
    /\ Len(store.call.attempts) = 3
    /\ store.call.attempts[3].error
    /\ Len(store.call.attempts[3].batch) = 1
    /\ store.call.before # <<>>
    /\ Len(store.rows) = Len(store.call.before) + 2 * batchSize

====
